---- MODULE Spec2Model ----
(***************************************************************************)
(* A model of bwproject.py: the BWUser and BWProject classes of a client   *)
(* library for the Brandwatch REST API.                                    *)
(*                                                                         *)
(* State: the live session objects, the token file on disk, the default    *)
(* argument objects of the methods that declare `params = {}` (Python      *)
(* evaluates a default once, at definition time, so every call that omits  *)
(* the argument gets the same dictionary), and a log of the last call.     *)
(*                                                                         *)
(* Conventions.                                                            *)
(*  - A Python str is a TLA+ string; + on strings is \o.                   *)
(*  - A JSON value that may be null or a list is a tagged sequence:        *)
(*    JStr(s), JNull, JList(items).                                        *)
(*  - A dict with string keys is a function on a finite set of strings;    *)
(*    the dict built from the token file is an insertion-ordered sequence  *)
(*    of <<key, value>> pairs, as its items() order decides the file.      *)
(*  - The token file is kept as read().split("\n") sees it: a sequence of  *)
(*    lines, each line as split("\t") sees it: a sequence of fields.       *)
(*    Usernames and tokens hold no tab and no newline.                     *)
(*  - The interpreter is a Python 3 that accepts open(path, "rU")          *)
(*    (3.0 to 3.10); `except (IOError or ValueError)` catches IOError      *)
(*    only, as `IOError or ValueError` evaluates to IOError.               *)
(*  - An exception is the field `raised` of a call's result, named after   *)
(*    the error of the design it stands for where the code raises it       *)
(*    itself (every such raise is a KeyError in the code) and after the    *)
(*    Python exception otherwise.                                          *)
(***************************************************************************)
EXTENDS Naturals, Integers, Sequences, FiniteSets, TLC

VARIABLES sessions, file, defaults, last

vars == <<sessions, file, defaults, last>>

(* ------------------------------ bounds --------------------------------- *)

\* Session objects that can be alive at once.
MaxSessions == 2

(* --------------------------- values of the model ----------------------- *)

Usernames == {"alice", "bob"}
Passwords == {"pw"}
\* Tokens a caller passes to a constructor ("" is the default: none given).
ExplicitTokens == {"", "tx"}

JStr(s) == <<"str", s>>
JNull == <<"null">>
JList(items) == <<"list">> \o items

\* Python truthiness of a JSON value.
Truthy(v) ==
    CASE v[1] = "null" -> FALSE
      [] v[1] = "str" -> v[2] # ""
      [] v[1] = "list" -> Len(v) > 1

EmptyMap == [k \in {} |-> ""]
Map1(k, v) == [x \in {k} |-> v]
\* d[k] = v on a dict.
Put(d, k, v) == [x \in DOMAIN d \cup {k} |-> IF x = k THEN v ELSE d[x]]

(* ------------------------------ BWUser --------------------------------- *)

apiurl == "https://newapi.brandwatch.com/"
oauthpath == "oauth/token"

\* The token file: absent, or its lines.
AbsentFile == [exists |-> FALSE, lines |-> <<>>]
\* What open(path, "w") leaves before anything is written: "" (one empty line).
TruncatedFile == [exists |-> TRUE, lines |-> << <<"">> >>]

\* d[k] = v on the insertion-ordered dict of the token file.
SetItem(d, k, v) ==
    IF \E i \in 1..Len(d) : d[i][1] = k
    THEN [i \in 1..Len(d) |-> IF d[i][1] = k THEN <<k, v>> ELSE d[i]]
    ELSE Append(d, <<k, v>>)

RECURSIVE DictOf(_)
\* dict(pairs): a later pair for a key replaces the value of an earlier one.
DictOf(pairs) ==
    IF pairs = <<>> THEN <<>>
    ELSE LET n == Len(pairs)
         IN SetItem(DictOf(SubSeq(pairs, 1, n - 1)), pairs[n][1], pairs[n][2])

RECURSIVE TwoFieldLines(_)
\* [x.split("\t") for x in lines if len(x.split("\t")) == 2]
TwoFieldLines(lines) ==
    IF lines = <<>> THEN <<>>
    ELSE LET rest == TwoFieldLines(Tail(lines))
             x == Head(lines)
         IN IF Len(x) = 2 THEN << <<x[1], JStr(x[2])>> >> \o rest ELSE rest

\* A reader that stops at the first line (readline() for read()).
ReadTokens_FirstLine(f) == DictOf(TwoFieldLines(SubSeq(f.lines, 1, 1)))

\* tokens = dict([... for x in tokensfile.read().split("\n") ...])
ReadTokens(f) == DictOf(TwoFieldLines(f.lines))

HasKey(d, k) == \E i \in 1..Len(d) : d[i][1] = k
GetItem(d, k) == d[CHOOSE i \in 1..Len(d) : d[i][1] = k][2]

\* The request getAccessToken sends.
TokenRequest(username, password) ==
    [verb |-> "get", url |-> apiurl \o oauthpath,
     params |-> [k \in {"username", "password", "grant_type", "client_id"} |->
                    CASE k = "username" -> username
                      [] k = "password" -> password
                      [] k = "grant_type" -> "api-password"
                      [] k = "client_id" -> "brandwatch-api-client"],
     data |-> <<>>, headers |-> EmptyMap]

\* getAccessToken with the token endpoint answering `body`. The else of line 190
\* belongs to the outer if: a null access_token falls off the end of the
\* function, which returns None.
getAccessToken(username, password, body) ==
    LET req == TokenRequest(username, password)
    IN IF "access_token" \in DOMAIN body
       THEN IF body["access_token"] # JNull
            THEN [raised |-> "", ret |-> body["access_token"], req |-> req, body |-> body]
            ELSE [raised |-> "", ret |-> JNull, req |-> req, body |-> body]
       ELSE IF "errors" \in DOMAIN body
            THEN [raised |-> "AuthError", ret |-> JNull, req |-> req, body |-> body]
            ELSE [raised |-> "KeyError", ret |-> JNull, req |-> req, body |-> body]

\* "\n".join(["\t".join(x) for x in tokens.items()]) as the file's lines.
Lines(tokens) == [i \in 1..Len(tokens) |-> <<tokens[i][1], tokens[i][2][2]>>]

\* The except branch of assignAccessToken (lines 171-176), entered with the
\* fetches made so far. str + None is a TypeError, after open(.., "w").
AssignExcept(username, password, f, body2, writeOk, fetched) ==
    LET g == getAccessToken(username, password, body2)
        fs == Append(fetched, g)
    IN IF g.raised # ""
       THEN [raised |-> g.raised, token |-> "", file |-> f, fetches |-> fs, source |-> "none"]
       ELSE IF ~writeOk
       THEN [raised |-> "IOError", token |-> "", file |-> f, fetches |-> fs, source |-> "none"]
       ELSE IF g.ret = JNull
       THEN [raised |-> "TypeError", token |-> "", file |-> TruncatedFile,
             fetches |-> fs, source |-> "none"]
       ELSE [raised |-> "", token |-> g.ret[2],
             file |-> [exists |-> TRUE, lines |-> << <<username, g.ret[2]>> >>],
             fetches |-> fs, source |-> "fetch"]

\* assignAccessToken(token_path, fromfile). body1 and body2 are the token
\* endpoint's answers to the first and the second fetch; writeOk is whether
\* open(token_path, "w") succeeds during this call.
assignAccessToken(username, password, f, fromfile, body1, body2, writeOk) ==
    IF ~f.exists
    THEN AssignExcept(username, password, f, body1, writeOk, <<>>)
    ELSE LET tokens == ReadTokens(f)
         IN IF fromfile /\ HasKey(tokens, username)
            THEN [raised |-> "", token |-> GetItem(tokens, username)[2], file |-> f,
                  fetches |-> <<>>, source |-> "cache"]
            ELSE LET g == getAccessToken(username, password, body1)
                     tokens2 == SetItem(tokens, username, g.ret)
                 IN IF g.raised # ""
                    THEN [raised |-> g.raised, token |-> "", file |-> f,
                          fetches |-> <<g>>, source |-> "none"]
                    ELSE IF ~writeOk
                    THEN AssignExcept(username, password, f, body2, writeOk, <<g>>)
                    ELSE IF \E i \in 1..Len(tokens2) : tokens2[i][2][1] # "str"
                    THEN [raised |-> "TypeError", token |-> "", file |-> TruncatedFile,
                          fetches |-> <<g>>, source |-> "none"]
                    ELSE [raised |-> "", token |-> g.ret[2],
                          file |-> [exists |-> TRUE, lines |-> Lines(tokens2)],
                          fetches |-> <<g>>, source |-> "fetch"]

(* ----------------------------- sessions -------------------------------- *)

\* A slot holding no object.
NoSession ==
    [state |-> "none", cls |-> "", username |-> "", password |-> "", token |-> "",
     console_report |-> "unset", project_name |-> "", project_id |-> -1,
     project_address |-> ""]

\* The object BWUser.__init__ leaves (lines 30-38): it sets no console_report;
\* the project fields are not attributes of a BWUser and stay at NoSession's.
NewUser(username, password, token) ==
    [NoSession EXCEPT !.state = "ready", !.cls = "BWUser", !.username = username,
                      !.password = password, !.token = token]

\* Token resolution of BWUser.__init__ (lines 35-38).
BWUser_init(username, password, token, f, body1, body2, writeOk) ==
    IF token # ""
    THEN [raised |-> "", token |-> token, file |-> f, fetches |-> <<>>,
          source |-> "explicit"]
    ELSE assignAccessToken(username, password, f, TRUE, body1, body2, writeOk)

(* ----------------------------- dispatcher ------------------------------ *)

\* data = {}: the default, and what `data == {}` tests for.
NoData == <<"dict">>

\* bare_request (lines 124-143) with the server answering the JSON `body`.
\* params is the dictionary object the call received; the result's params is
\* that object after the call.
bare_request(self, verb, address_root, address_suffix, access_token, params, data, body) ==
    LET params2 == IF access_token # "" THEN Put(params, "access_token", access_token)
                   ELSE params
        req == IF data = NoData
               THEN [verb |-> verb, url |-> address_root \o address_suffix,
                     params |-> params2, data |-> <<>>, headers |-> EmptyMap]
               ELSE [verb |-> verb, url |-> address_root \o address_suffix,
                     params |-> params2, data |-> data,
                     headers |-> Map1("Content-type", "application/json")]
        errs == "errors" \in DOMAIN body /\ Truthy(body["errors"])
    IN IF errs /\ self.console_report = "unset"
       THEN [raised |-> "AttributeError", ret |-> EmptyMap, req |-> req,
             params |-> params2, printed |-> FALSE, body |-> body]
       ELSE [raised |-> "", ret |-> body, req |-> req, params |-> params2,
             printed |-> errs /\ self.console_report = "True", body |-> body]

\* request (line 107).
request(self, verb, address, params, data, body) ==
    bare_request(self, verb, apiurl, address, self.token, params, data, body)

\* get_projects (lines 47-48); params is request's default dictionary.
get_projects(self, params, body) ==
    LET r == request(self, "get", "projects", params, NoData, body)
    IN [raised |-> r.raised, r |-> r,
        isList |-> r.raised = "" /\ "results" \in DOMAIN r.ret,
        list |-> IF r.raised = "" /\ "results" \in DOMAIN r.ret
                 THEN r.ret["results"] ELSE <<>>,
        raw |-> IF r.raised = "" /\ "results" \notin DOMAIN r.ret
                THEN r.ret ELSE EmptyMap]

\* get_self (line 52).
get_self(self, params, body) == request(self, "get", "me", params, NoData, body)

\* The body shared by validate_query_search and validate_rule_search
\* (lines 65-72 and 85-92), which differ in the address only.
ValidateSearch(self, address, kwargs, body) ==
    IF "query" \notin DOMAIN kwargs
    THEN [raised |-> "ArgumentError", detail |-> JNull, dispatched |-> <<>>]
    ELSE LET kw == IF "language" \notin DOMAIN kwargs
                   THEN Put(kwargs, "language", <<"en">>) ELSE kwargs
             r == request(self, "get", address, kw, NoData, body)
         IN IF r.raised # ""
            THEN [raised |-> r.raised, detail |-> JNull, dispatched |-> <<r>>]
            ELSE IF "errors" \notin DOMAIN r.ret
            THEN [raised |-> "KeyError", detail |-> JNull, dispatched |-> <<r>>]
            ELSE IF Truthy(r.ret["errors"])
            THEN [raised |-> "ValidationError", detail |-> r.ret["errors"],
                  dispatched |-> <<r>>]
            ELSE [raised |-> "", detail |-> JNull, dispatched |-> <<r>>]

validate_query_search(self, kwargs, body) ==
    ValidateSearch(self, "query-validation", kwargs, body)

validate_rule_search(self, kwargs, body) ==
    ValidateSearch(self, "query-validation/searchwithin", kwargs, body)

(* ----------------------------- BWProject ------------------------------- *)

\* "projects/" + str(self.project_id) + "/" (line 240).
ProjectAddress(id) == "projects/" \o ToString(id) \o "/"

\* A scan that takes the first entry, whatever its name.
FindProject_AnyName(list, project) == IF list # <<>> THEN 1 ELSE 0

\* The index of the entry the loop of lines 236-242 stops at: the first whose
\* name is `project`; 0 when the loop runs to its end.
FindProject(list, project) ==
    IF \E i \in 1..Len(list) : list[i].name = project
    THEN CHOOSE i \in 1..Len(list) :
            /\ list[i].name = project
            /\ \A j \in 1..(i - 1) : list[j].name # project
    ELSE 0

\* get_project (lines 233-245). Iterating a dictionary (the raw body that
\* get_projects returns when there is no "results") yields its keys, strings,
\* and p["name"] on a string is a TypeError.
get_project(self, project, params, body) ==
    LET g == get_projects(self, params, body)
        i == FindProject(g.list, project)
    IN IF g.raised # ""
       THEN [raised |-> g.raised, self |-> self, g |-> g]
       ELSE IF ~g.isList /\ DOMAIN g.raw # {}
       THEN [raised |-> "TypeError", self |-> self, g |-> g]
       ELSE IF i = 0
       THEN [raised |-> "NotFoundError", self |-> self, g |-> g]
       ELSE [raised |-> "",
             self |-> [self EXCEPT !.project_name = project,
                                   !.project_id = g.list[i].id,
                                   !.project_address = ProjectAddress(g.list[i].id)],
             g |-> g]

\* The object BWProject.__init__ holds when it calls get_project (lines 218-222).
NewProject(username, password, token, console_report) ==
    [NewUser(username, password, token) EXCEPT
        !.cls = "BWProject", !.project_name = "", !.project_id = -1,
        !.project_address = "", !.console_report = console_report]

\* A project-level method that forgets the project's address.
ProjectVerb_NoPrefix(self, verb, endpoint, params, data, body) ==
    request(self, verb, endpoint, params, data, body)

\* get, delete, post, put, patch (lines 258, 271, 285, 299, 313): `verb` is the
\* method called, and names the requests function it passes on.
ProjectVerb(self, verb, endpoint, params, data, body) ==
    request(self, verb, self.project_address \o endpoint, params, data, body)

(* ------------------------- inputs of the model ------------------------- *)

\* Answers of the token endpoint: a token, an empty token, a null token, an
\* error body without access_token.
TokenBodies ==
    {Map1("access_token", JStr("t1")), Map1("access_token", JStr("")),
     Map1("access_token", JNull), Map1("errors", JList(<<"invalid_grant">>))}

\* Answers of the API to a call: a body without errors field, with errors
\* null, empty, and non-empty.
ApiBodies ==
    {Map1("id", JStr("7")), Map1("errors", JNull), Map1("errors", JList(<<>>)),
     Map1("errors", JList(<<"bad request">>))}

Acme42 == [name |-> "Acme", id |-> 42]
Acme7 == [name |-> "Acme", id |-> 7]
Beta3 == [name |-> "Beta", id |-> 3]

\* Answers of GET "projects": lists under "results" (one with a second entry
\* of the same name, an empty one, one with a warning beside the list), and
\* a raw error body.
ProjectBodies ==
    {Map1("results", <<Beta3, Acme42, Acme7>>),
     Map1("results", <<Acme7>>),
     Map1("results", <<>>),
     Put(Map1("results", <<Beta3>>), "errors", JList(<<"partial">>)),
     Map1("errors", JList(<<"unauthorized">>))}

ProjectNames == {"Acme", "Nope"}
ConsoleReports == {"True", "False"}
Endpoints == {"queries"}
Addresses == {"me"}
Verbs == {"get", "delete", "post", "put", "patch"}

\* Dictionaries a caller passes as params; choice 0 is to omit the argument.
CallerParams == <<Map1("pageSize", "10")>>
ParamChoices == 0..Len(CallerParams)
\* What a caller passes as data: nothing (the default {}), or a JSON string.
DataChoices == {NoData, JStr("{name: q}")}
\* Keyword arguments of the validators.
Kwargs ==
    {EmptyMap, Map1("query", "cats"), Put(Map1("query", "cats"), "language", <<"fr">>)}

\* The functions whose params default is a dictionary shared by their calls.
DefaultOwners == {"request", "get", "delete", "post", "put", "patch"}

Slots == 1..MaxSessions

\* The first slot holding no object. The slots are interchangeable (nothing in
\* the code numbers its objects), so a new object always takes this one.
FirstFree ==
    IF \E s \in Slots : sessions[s].state = "none"
    THEN CHOOSE s \in Slots :
            /\ sessions[s].state = "none"
            /\ \A r \in 1..(s - 1) : sessions[r].state # "none"
    ELSE 1

\* The inputs token resolution reads, the endpoint answering from TB: none
\* when a token is given, the second answer only after a failed open for
\* writing.
TokenInputs(token, TB) ==
    IF token # ""
    THEN {<<Map1("access_token", JStr("t1")), Map1("access_token", JStr("t1")), TRUE>>}
    ELSE {<<b, b, TRUE>> : b \in TB} \cup
         {<<b1, b2, FALSE>> : b1 \in TB, b2 \in TB}

\* What the endpoint answers when a session fetches its token again.
RefreshBodies == {Map1("access_token", JStr("t2"))}

\* Token files found at the start: none, an empty one, one holding an entry, a
\* line that is no entry and a trailing newline.
InitFiles ==
    {AbsentFile, TruncatedFile,
     [exists |-> TRUE, lines |-> << <<"alice", "t0">>, <<"a", "b", "c">>, <<"">> >>]}

(* ------------------------------- the log ------------------------------- *)

\* What the last call did: the call, its arguments and the token of the session
\* that made it (for a constructor, the token it resolved), the exception that
\* left it ("" when it returned), the fetches of getAccessToken and the
\* calls of request it made, and every HTTP request it sent, in order.
NoLog ==
    [op |-> "init", sid |-> 0, username |-> "", token |-> "", explicit |-> "",
     source |-> "none",
     raised |-> "", fetches |-> <<>>, dispatched |-> <<>>, reqs |-> <<>>,
     omitted |-> FALSE, entryParams |-> EmptyMap, verb |-> "", endpoint |-> "",
     project |-> "", kwargs |-> EmptyMap, detail |-> JNull]

ReqsOf(rs) == [i \in 1..Len(rs) |-> rs[i].req]

(* ------------------------------- actions ------------------------------- *)

Init ==
    /\ sessions = [s \in Slots |-> NoSession]
    /\ file \in InitFiles
    /\ defaults = [f \in DefaultOwners |-> EmptyMap]
    /\ last = NoLog

\* BWUser(username, password, token)
New_BWUser(s, username, password, token, tin) ==
    LET a == BWUser_init(username, password, token, file, tin[1], tin[2], tin[3])
    IN /\ sessions[s].state = "none"
       /\ sessions' = IF a.raised = ""
                      THEN [sessions EXCEPT ![s] = NewUser(username, password, a.token)]
                      ELSE sessions
       /\ file' = a.file
       /\ UNCHANGED defaults
       /\ last' = [NoLog EXCEPT !.op = "BWUser", !.sid = s, !.username = username,
                                !.explicit = token, !.source = a.source,
                                !.token = a.token,
                                !.raised = a.raised, !.fetches = a.fetches,
                                !.reqs = ReqsOf(a.fetches)]

\* BWProject(username, project, password, token, console_report)
New_BWProject(s, username, project, password, token, console_report, tin, body) ==
    LET a == BWUser_init(username, password, token, file, tin[1], tin[2], tin[3])
        self == NewProject(username, password, a.token, console_report)
        p == get_project(self, project, defaults["request"], body)
        log == [NoLog EXCEPT !.op = "BWProject", !.sid = s, !.username = username,
                             !.explicit = token, !.source = a.source,
                             !.token = a.token,
                             !.project = project, !.fetches = a.fetches]
    IN /\ sessions[s].state = "none"
       /\ file' = a.file
       /\ IF a.raised # ""
          THEN /\ UNCHANGED <<sessions, defaults>>
               /\ last' = [log EXCEPT !.raised = a.raised, !.reqs = ReqsOf(a.fetches)]
          ELSE /\ sessions' = IF p.raised = "" THEN [sessions EXCEPT ![s] = p.self]
                              ELSE sessions
               /\ defaults' = [defaults EXCEPT !["request"] = p.g.r.params]
               /\ last' = [log EXCEPT !.raised = p.raised, !.dispatched = <<p.g.r>>,
                                      !.omitted = TRUE,
                                      !.entryParams = defaults["request"],
                                      !.reqs = Append(ReqsOf(a.fetches), p.g.r.req)]

\* The dictionary a call of `owner` works on: the caller's, or owner's default.
ActualParams(owner, p) == IF p = 0 THEN defaults[owner] ELSE CallerParams[p]

\* The defaults after a call of `owner` that left its dictionary as `params`.
DefaultsAfter(owner, p, params) ==
    IF p = 0 THEN [defaults EXCEPT ![owner] = params] ELSE defaults

\* session.request(verb, address, params, data), called by the user.
Call_request(s, verb, address, p, data, body) ==
    LET r == request(sessions[s], verb, address, ActualParams("request", p), data, body)
    IN /\ sessions[s].state = "ready"
       /\ defaults' = DefaultsAfter("request", p, r.params)
       /\ UNCHANGED <<sessions, file>>
       /\ last' = [NoLog EXCEPT !.op = "request", !.sid = s, !.token = sessions[s].token,
                                !.raised = r.raised,
                                !.dispatched = <<r>>, !.reqs = <<r.req>>,
                                !.omitted = (p = 0),
                                !.entryParams = ActualParams("request", p),
                                !.verb = verb, !.endpoint = address]

\* session.get_self()
Call_get_self(s, body) ==
    LET r == get_self(sessions[s], defaults["request"], body)
    IN /\ sessions[s].state = "ready"
       /\ defaults' = [defaults EXCEPT !["request"] = r.params]
       /\ UNCHANGED <<sessions, file>>
       /\ last' = [NoLog EXCEPT !.op = "get_self", !.sid = s, !.token = sessions[s].token,
                                !.raised = r.raised,
                                !.dispatched = <<r>>, !.reqs = <<r.req>>,
                                !.omitted = TRUE, !.entryParams = defaults["request"]]

\* session.get_projects()
Call_get_projects(s, body) ==
    LET g == get_projects(sessions[s], defaults["request"], body)
    IN /\ sessions[s].state = "ready"
       /\ defaults' = [defaults EXCEPT !["request"] = g.r.params]
       /\ UNCHANGED <<sessions, file>>
       /\ last' = [NoLog EXCEPT !.op = "get_projects", !.sid = s, !.token = sessions[s].token,
                                !.raised = g.raised,
                                !.dispatched = <<g.r>>, !.reqs = <<g.r.req>>,
                                !.omitted = TRUE, !.entryParams = defaults["request"]]

\* The log of a validator call.
ValidateLog(op, s, kwargs, v) ==
    [NoLog EXCEPT !.op = op, !.sid = s, !.token = sessions[s].token,
                  !.raised = v.raised,
                  !.dispatched = v.dispatched, !.reqs = ReqsOf(v.dispatched),
                  !.kwargs = kwargs, !.detail = v.detail]

\* session.validate_query_search(**kwargs)
Call_validate_query_search(s, kwargs, body) ==
    /\ sessions[s].state = "ready"
    /\ UNCHANGED <<sessions, file, defaults>>
    /\ last' = ValidateLog("validate_query_search", s, kwargs,
                           validate_query_search(sessions[s], kwargs, body))

\* session.validate_rule_search(**kwargs)
Call_validate_rule_search(s, kwargs, body) ==
    /\ sessions[s].state = "ready"
    /\ UNCHANGED <<sessions, file, defaults>>
    /\ last' = ValidateLog("validate_rule_search", s, kwargs,
                           validate_rule_search(sessions[s], kwargs, body))

\* session.get_project(project), called again on a ready Project Session.
Call_get_project(s, project, body) ==
    LET r == get_project(sessions[s], project, defaults["request"], body)
    IN /\ sessions[s].state = "ready"
       /\ sessions[s].cls = "BWProject"
       /\ sessions' = [sessions EXCEPT ![s] = r.self]
       /\ defaults' = [defaults EXCEPT !["request"] = r.g.r.params]
       /\ UNCHANGED file
       /\ last' = [NoLog EXCEPT !.op = "get_project", !.sid = s, !.token = sessions[s].token,
                                !.raised = r.raised,
                                !.dispatched = <<r.g.r>>, !.reqs = <<r.g.r.req>>,
                                !.omitted = TRUE, !.entryParams = defaults["request"],
                                !.project = project]

\* One of the five project-level methods; `verb` is the method's name.
VerbCall(s, verb, endpoint, p, data, body) ==
    LET r == ProjectVerb(sessions[s], verb, endpoint, ActualParams(verb, p), data, body)
    IN /\ sessions[s].state = "ready"
       /\ sessions[s].cls = "BWProject"
       /\ defaults' = DefaultsAfter(verb, p, r.params)
       /\ UNCHANGED <<sessions, file>>
       /\ last' = [NoLog EXCEPT !.op = verb, !.sid = s, !.token = sessions[s].token,
                                !.raised = r.raised,
                                !.dispatched = <<r>>, !.reqs = <<r.req>>,
                                !.omitted = (p = 0),
                                !.entryParams = ActualParams(verb, p),
                                !.verb = verb, !.endpoint = endpoint]

\* session.get(endpoint, params)
Call_get(s, endpoint, p, body) == VerbCall(s, "get", endpoint, p, NoData, body)
\* session.delete(endpoint, params)
Call_delete(s, endpoint, p, body) == VerbCall(s, "delete", endpoint, p, NoData, body)
\* session.post(endpoint, params, data)
Call_post(s, endpoint, p, data, body) == VerbCall(s, "post", endpoint, p, data, body)
\* session.put(endpoint, params, data)
Call_put(s, endpoint, p, data, body) == VerbCall(s, "put", endpoint, p, data, body)
\* session.patch(endpoint, params, data)
Call_patch(s, endpoint, p, data, body) == VerbCall(s, "patch", endpoint, p, data, body)

\* session.assignAccessToken(token_path, fromfile): the token is returned, not
\* stored in the session.
Call_assignAccessToken(s, fromfile, tin) ==
    LET a == assignAccessToken(sessions[s].username, sessions[s].password, file,
                               fromfile, tin[1], tin[2], tin[3])
    IN /\ sessions[s].state = "ready"
       /\ file' = a.file
       /\ UNCHANGED <<sessions, defaults>>
       /\ last' = [NoLog EXCEPT !.op = "assignAccessToken", !.sid = s,
                                !.token = sessions[s].token,
                                !.username = sessions[s].username,
                                !.source = a.source, !.raised = a.raised,
                                !.fetches = a.fetches, !.reqs = ReqsOf(a.fetches)]

(* ---------------------------- specifications --------------------------- *)

(***************************************************************************)
(* The program is sequential: a call runs to its end before the next one   *)
(* starts, and calls touch each other only through the token file and the  *)
(* default argument dictionaries. Next is the whole program. The four      *)
(* specifications after it take the same actions over the inputs that one  *)
(* part of the program reads, so that each is explored in full.            *)
(***************************************************************************)

\* The steps of the program, their inputs drawn from the sets given.
Users(U, T, TB) ==
    \E u \in U, pw \in Passwords, t \in T : \E tin \in TokenInputs(t, TB) :
        New_BWUser(FirstFree, u, pw, t, tin)

Projects(U, T, TB, PN, CR, PB) ==
    \E u \in U, pw \in Passwords, t \in T, pr \in PN, cr \in CR, body \in PB :
        \E tin \in TokenInputs(t, TB) :
            New_BWProject(FirstFree, u, pr, pw, t, cr, tin, body)

GetSelf(AB) == \E s \in Slots, body \in AB : Call_get_self(s, body)

GetProjects(PB) == \E s \in Slots, body \in PB : Call_get_projects(s, body)

Validators(KW, AB) ==
    \/ \E s \in Slots, kw \in KW, body \in AB : Call_validate_query_search(s, kw, body)
    \/ \E s \in Slots, kw \in KW, body \in AB : Call_validate_rule_search(s, kw, body)

Requests(V, PC, DC, AB) ==
    \E s \in Slots, v \in V, a \in Addresses, p \in PC, d \in DC, body \in AB :
        Call_request(s, v, a, p, d, body)

GetProject(PN, PB) ==
    \E s \in Slots, pr \in PN, body \in PB : Call_get_project(s, pr, body)

ProjectVerbs(PC, DC, AB) ==
    \/ \E s \in Slots, e \in Endpoints, p \in PC, body \in AB : Call_get(s, e, p, body)
    \/ \E s \in Slots, e \in Endpoints, p \in PC, body \in AB : Call_delete(s, e, p, body)
    \/ \E s \in Slots, e \in Endpoints, p \in PC, d \in DC, body \in AB :
          Call_post(s, e, p, d, body)
    \/ \E s \in Slots, e \in Endpoints, p \in PC, d \in DC, body \in AB :
          Call_put(s, e, p, d, body)
    \/ \E s \in Slots, e \in Endpoints, p \in PC, d \in DC, body \in AB :
          Call_patch(s, e, p, d, body)

TokenCalls(TB) ==
    \E s \in Slots, ff \in BOOLEAN : \E tin \in TokenInputs("", TB) :
        Call_assignAccessToken(s, ff, tin)

\* The whole program.
Next ==
    \/ Users(Usernames, ExplicitTokens, TokenBodies)
    \/ Projects(Usernames, ExplicitTokens, TokenBodies, ProjectNames, ConsoleReports,
                ProjectBodies)
    \/ GetSelf(ApiBodies)
    \/ GetProjects(ProjectBodies)
    \/ Validators(Kwargs, ApiBodies)
    \/ Requests(Verbs, ParamChoices, DataChoices, ApiBodies)
    \/ GetProject(ProjectNames, ProjectBodies)
    \/ ProjectVerbs(ParamChoices, DataChoices, ApiBodies)
    \/ TokenCalls(TokenBodies)

Spec == Init /\ [][Next]_vars

\* Token resolution and the token file: sessions constructed with and
\* without a token, and tokens fetched again, against every token file.
NextAuth ==
    \/ Users(Usernames, ExplicitTokens, TokenBodies)
    \/ TokenCalls(RefreshBodies)

SpecAuth == Init /\ [][NextAuth]_vars

\* A body without errors and one with; a list of projects and an error body.
TwoBodies == {Map1("id", JStr("7")), Map1("errors", JList(<<"bad request">>))}
TwoLists == {Map1("results", <<Acme7>>), Map1("errors", JList(<<"unauthorized">>))}

\* No token file yet.
InitNoFile == Init /\ file = AbsentFile

\* Project Sessions: constructed with a token, against every answer of GET
\* "projects", then called through every method a Project Session has.
NextProject ==
    \/ Projects({"alice"}, {"tx"}, TokenBodies, ProjectNames, ConsoleReports,
                ProjectBodies)
    \/ GetSelf(TwoBodies)
    \/ GetProjects(TwoLists)
    \/ Validators(Kwargs, TwoBodies)
    \/ GetProject(ProjectNames, ProjectBodies)
    \/ ProjectVerbs({1}, DataChoices, TwoBodies)

SpecProject == InitNoFile /\ [][NextProject]_vars

\* A token endpoint that answers with an empty token.
EmptyTokenBodies == {Map1("access_token", JStr(""))}

\* The dispatcher: User Sessions with a token and with an empty one, Project
\* Sessions, and calls through request with every verb, with and without
\* params and data, against every body.
NextDispatch ==
    \/ Users({"alice"}, {"tx"}, TokenBodies)
    \/ Users({"bob"}, {""}, EmptyTokenBodies)
    \/ Projects({"alice"}, {"tx"}, TokenBodies, {"Acme"}, ConsoleReports,
                {Map1("results", <<Acme7>>)})
    \/ GetSelf(ApiBodies)
    \/ Requests(Verbs, {1}, DataChoices, ApiBodies)
    \/ \E s \in Slots, e \in Endpoints, p \in ParamChoices, body \in ApiBodies :
          Call_get(s, e, p, body)

SpecDispatch == InitNoFile /\ [][NextDispatch]_vars

\* The validators, on User Sessions and on Project Sessions.
NextValidate ==
    \/ Users({"alice"}, {"tx"}, TokenBodies)
    \/ Projects({"alice"}, {"tx"}, TokenBodies, {"Acme"}, ConsoleReports,
                {Map1("results", <<Acme7>>)})
    \/ Validators(Kwargs, ApiBodies)

SpecValidate == InitNoFile /\ [][NextValidate]_vars

(* ------------------------ the token file's claims ---------------------- *)

Constructors == {"BWUser", "BWProject"}

TokenUrl == apiurl \o oauthpath

\* The requests among rs that went to the token endpoint.
TokenRequests(rs) == {i \in 1..Len(rs) : rs[i].url = TokenUrl}

\* Line i of the file is the entry of username u: u<TAB>token.
EntryAt(f, i, u) == Len(f.lines[i]) = 2 /\ f.lines[i][1] = u

\* The file holds an entry for u.
HasEntry(f, u) == f.exists /\ \E i \in 1..Len(f.lines) : EntryAt(f, i, u)

\* The file holds the entry (u, t), and no other entry for u.
HoldsEntry(f, u, t) ==
    /\ f.exists
    /\ \E i \in 1..Len(f.lines) :
          /\ f.lines[i] = <<u, t>>
          /\ \A j \in 1..Len(f.lines) : EntryAt(f, j, u) => j = i

\* The tokens an entry of the file holds.
FileTokens(f) == {f.lines[i][2] : i \in {j \in 1..Len(f.lines) : Len(f.lines[j]) = 2}}

\* The answer of the token endpoint carries no usable access_token.
Unusable(body) == "access_token" \notin DOMAIN body \/ body["access_token"] = JNull

\* C1: a construction with no explicit token, for a username whose entry (u, t)
\* the token file holds, takes the token from the file: the session is ready
\* with token t, no request went to the token endpoint and the file is as it
\* was; for a username with no entry in the file, the token is not taken from
\* the file.
C1_CachedTokenReused ==
    [][(last'.op \in Constructors /\ last'.explicit = "") =>
          /\ \A t \in FileTokens(file) :
                HoldsEntry(file, last'.username, t) =>
                    /\ last'.source = "cache"
                    /\ TokenRequests(last'.reqs) = {}
                    /\ file' = file
                    /\ last'.op = "BWUser" =>
                          /\ last'.raised = ""
                          /\ sessions'[last'.sid].state = "ready"
                          /\ sessions'[last'.sid].username = last'.username
                          /\ sessions'[last'.sid].token = t
          /\ ~HasEntry(file, last'.username) => last'.source # "cache"]_vars

\* C1's case: a session constructed from an entry that an earlier session's
\* save wrote ("t1" comes from the token endpoint only).
C1_Witness ==
    /\ last.op = "BWUser"
    /\ last.explicit = ""
    /\ last.source = "cache"
    /\ last.reqs = <<>>
    /\ sessions[last.sid].token = "t1"
    /\ HoldsEntry(file, last.username, "t1")

\* C2: a construction with no explicit token and no entry for the username in
\* the token file sends exactly one request to the token endpoint.
C2_ExactlyOneFetch ==
    [][(/\ last'.op \in Constructors
        /\ last'.explicit = ""
        /\ ~HasEntry(file, last'.username)) =>
          Cardinality(TokenRequests(last'.reqs)) = 1]_vars

\* C3: getAccessToken raises AuthError whenever the answer has no access_token
\* or a null one, and returns nothing then; no ready session has a null token
\* and no entry of the file is written from one.
C3_NullTokenIsAuthError ==
    \A i \in 1..Len(last.fetches) :
        Unusable(last.fetches[i].body) =>
            /\ last.fetches[i].raised = "AuthError"
            /\ last.source # "fetch"

\* C8: a save into a token file that exists keeps every other user's entry and
\* holds one entry (u, t) for the saving user; a save with no file leaves the
\* single entry (u, t); and no construction loses another user's entry.
C8_SaveKeepsOtherEntries ==
    [][last'.op \in Constructors =>
          LET u == last'.username
              saved == last'.source = "fetch"
              t == last'.fetches[Len(last'.fetches)].ret[2]
          IN /\ (saved /\ file.exists) =>
                    /\ HoldsEntry(file', u, t)
                    /\ \A i \in 1..Len(file'.lines) : Len(file'.lines[i]) = 2
                    /\ \A i, j \in 1..Len(file'.lines) :
                          file'.lines[i][1] = file'.lines[j][1] => i = j
             /\ (saved /\ ~file.exists) => file' = [exists |-> TRUE, lines |-> << <<u, t>> >>]
             /\ \A v \in Usernames \ {u} : \A w \in FileTokens(file) :
                    HoldsEntry(file, v, w) => HoldsEntry(file', v, w)]_vars

\* C10: a construction that fails in token resolution, the token endpoint
\* having answered without a usable access_token, leaves the token file as it
\* was.
C10_FailedFetchLeavesFile ==
    [][(/\ last'.op \in Constructors
        /\ last'.raised # ""
        /\ last'.fetches # <<>>
        /\ Unusable(last'.fetches[Len(last'.fetches)].body)) =>
          file' = file]_vars

(* ------------------------- the dispatcher's claims --------------------- *)

\* C4: every call of the dispatcher returns the parsed body to its caller and
\* raises nothing, on a User Session and on a Project Session, whatever the
\* verb and whatever the body, a non-empty errors field included.
C4_DispatcherNeverRaises ==
    \A i \in 1..Len(last.dispatched) :
        /\ last.dispatched[i].raised = ""
        /\ last.dispatched[i].ret = last.dispatched[i].body

Validators_ops == {"validate_query_search", "validate_rule_search"}

\* C5: a validator called with a query, on any session, raises ValidationError
\* carrying the errors field when that field of the answer is truthy, no other
\* error, and returns when the field is empty or null.
C5_ValidatorRaisesValidationError ==
    (/\ last.op \in Validators_ops
     /\ "query" \in DOMAIN last.kwargs
     /\ "errors" \in DOMAIN last.dispatched[1].body) =>
        LET errors == last.dispatched[1].body["errors"]
        IN IF Truthy(errors)
           THEN last.raised = "ValidationError" /\ last.detail = errors
           ELSE last.raised = ""

\* C7: every request a session sends to the API carries that session's own
\* token as access_token, or none; and a call made without params starts from
\* an empty dictionary.
C7_SessionOwnsItsToken ==
    /\ \A i \in 1..Len(last.reqs) :
          (/\ last.reqs[i].url # TokenUrl
           /\ "access_token" \in DOMAIN last.reqs[i].params) =>
              last.reqs[i].params["access_token"] = last.token
    /\ last.omitted => last.entryParams = EmptyMap

(* ------------------------ the Project Session's claims ----------------- *)

\* The requests among rs that went to the API, not to the token endpoint.
ApiRequests(rs) == {i \in 1..Len(rs) : rs[i].url # TokenUrl}

\* C6: constructing a Project Session with a name that no entry of the list
\* returned by get_projects has raises NotFoundError; GET "projects" is the one
\* request to the API and the last request sent; no ready session results.
C6_UnknownProjectNotFound ==
    (/\ last.op = "BWProject"
     /\ last.dispatched # <<>>
     /\ "results" \in DOMAIN last.dispatched[1].body
     /\ \A i \in 1..Len(last.dispatched[1].body["results"]) :
            last.dispatched[1].body["results"][i].name # last.project) =>
        /\ last.raised = "NotFoundError"
        /\ Cardinality(ApiRequests(last.reqs)) = 1
        /\ last.reqs[Len(last.reqs)].verb = "get"
        /\ last.reqs[Len(last.reqs)].url = apiurl \o "projects"
        /\ sessions[last.sid].state = "none"

\* C6's case: the list has entries, none named as asked.
C6_Witness ==
    /\ last.op = "BWProject"
    /\ last.project = "Nope"
    /\ last.raised = "NotFoundError"
    /\ "results" \in DOMAIN last.dispatched[1].body
    /\ Len(last.dispatched[1].body["results"]) = 3
    /\ \A s \in Slots : sessions[s].state = "none"

ProjectVerbs_ops == {"get", "delete", "post", "put", "patch"}

\* The calls C9 names: the five project-level methods, get_projects, get_self
\* and the validators.
C9_Calls == ProjectVerbs_ops \cup {"get_projects", "get_self"} \cup Validators_ops

\* A ready Project Session is resolved: an id and the prefix made of it.
C9_Resolved(x) ==
    /\ x.project_name # ""
    /\ x.project_id # -1
    /\ x.project_address = "projects/" \o ToString(x.project_id) \o "/"

\* C9: a constructed Project Session is resolved to the first entry of the list
\* with the name given; none of the calls C9 names changes a ready session;
\* each project-level method sends one request, with its own verb, to the
\* session's prefix followed by the endpoint; a ready session stays ready.
C9_ProjectFixedOnceReady ==
    /\ [](/\ (last.op = "BWProject" /\ last.raised = "") =>
                LET list == last.dispatched[1].body["results"]
                    x == sessions[last.sid]
                IN /\ x.state = "ready"
                   /\ \E i \in 1..Len(list) :
                         /\ list[i].name = last.project
                         /\ \A j \in 1..(i - 1) : list[j].name # last.project
                         /\ x.project_id = list[i].id
                         /\ x.project_name = last.project
          /\ \A s \in Slots :
                (sessions[s].state = "ready" /\ sessions[s].cls = "BWProject") =>
                    C9_Resolved(sessions[s])
          /\ last.op \in ProjectVerbs_ops =>
                /\ Len(last.reqs) = 1
                /\ last.reqs[1].verb = last.op
                /\ last.reqs[1].url =
                      apiurl \o sessions[last.sid].project_address \o last.endpoint)
    /\ [][\A s \in Slots :
            sessions[s].state = "ready" =>
                /\ sessions'[s].state = "ready"
                /\ last'.op \in C9_Calls => sessions'[s] = sessions[s]]_vars

\* C9's case: a session resolved to the first of two entries named "Acme" has
\* sent a POST to its prefix.
C9_Witness ==
    /\ last.op = "post"
    /\ sessions[last.sid].project_id = 42
    /\ last.reqs[1].url = "https://newapi.brandwatch.com/projects/42/queries"
    /\ last.reqs[1].verb = "post"

====
